---- MODULE Spec2Model ----
(***************************************************************************)
(* The authenticated API client of the blog frontend: the axios request    *)
(* and response interceptors of ApiService with the token-refresh cycle    *)
(* and its request queue, the persisted token keys, the authentication-    *)
(* failure signal with its delayed redirect, and the AuthProvider session  *)
(* state that is (re)initialised on every page load.                       *)
(*                                                                         *)
(* One step of the model is one run-to-completion turn of the browser      *)
(* event loop: a user action, the delivery of a network response together  *)
(* with the promise continuations it releases, or the firing of a timer.   *)
(***************************************************************************)
EXTENDS Integers, Sequences, FiniteSets, TLC

\* ---------------------------------------------------------------- bounds
NReq == 2          \* request objects a page can issue besides the validation call
NTok == 2          \* distinct token pairs the backend hands out
NLive == 1         \* request objects a page can issue under FairSpec
NOut == 1          \* request objects a logout call can take
MaxNow == 5        \* clock readings tried with ApiService.isAuthenticated()
NMail == 1         \* distinct e-mail addresses submitted to login and register
NName == 11        \* distinct tag names typed into the tag creation form

None == 0          \* localStorage.getItem(...) === null, header absent

Req      == 0..NReq           \* 0 is the getDrafts() call of initializeAuth
UserReq  == 1..NReq
Tokens   == 1..NTok
Emails   == 1..NMail          \* the e-mail address typed into the form

\* ------------------------------------------------------------ state
VARIABLES
  store,                \* localStorage: the four token keys
  isRefreshing,         \* ApiService.isRefreshing
  refreshTokenPromise,  \* ApiService.refreshTokenPromise # null
  requestQueue,         \* ApiService.requestQueue (request ids, in push order)
  req,                  \* per request: config, position of its promise chain, caller outcome
  wire,                 \* what the latest turn put on the network, in order
  lastRefreshResponse,  \* access token of the refresh response the latest turn received
  authErrorEvents,      \* an 'authenticationError' event was dispatched on this page
  redirectTimers,       \* a setTimeout(..., 2000) redirect callback is pending
  location,             \* route of the page
  mounted,              \* AuthProvider's mount effect has run on this page
  isAuthenticated,      \* AuthProvider state
  user,                 \* AuthProvider state: the e-mail of the user record, None for null
  loading,              \* AuthProvider state
  cut,                  \* the latest turn unloaded the page with a network call in flight
  logoutOutcome,        \* how a call of ApiService.logout completed in the latest turn
  now,                  \* Date.now()
  loginAt,              \* the clock reading at the latest login, if any
  authResult,           \* what the latest call of ApiService.isAuthenticated() returned, if any
  newTagNames,          \* TagsPage state: the pending tag names
  currentTagInput,      \* TagsPage state: the text of the name input
  formError,            \* TagsPage state: the message under the name input
  creating,             \* TagsPage state
  isOpen,               \* TagsPage: useDisclosure() of the creation dialog
  tagsLoading,          \* TagsPage state `loading`
  createTagsCall        \* the apiService.createTags calls the latest turn made: size of the list, session

vars == << store, isRefreshing, refreshTokenPromise, requestQueue, req,
           wire, lastRefreshResponse, authErrorEvents, redirectTimers,
           location, mounted, isAuthenticated, user, loading, cut,
           logoutOutcome, now, loginAt, authResult,
           newTagNames, currentTagInput, formError, creating, isOpen,
           tagsLoading, createTagsCall >>

apiVars     == << isRefreshing, refreshTokenPromise, requestQueue >>
sessionVars == << isAuthenticated, user, loading >>
pageVars    == << location, mounted >>
signalVars  == << authErrorEvents, redirectTimers >>
clockVars   == << now, loginAt, authResult >>
tagVars     == << newTagNames, currentTagInput, formError, creating, isOpen,
                  tagsLoading, createTagsCall >>

\* ------------------------------------------------------------ values
EmptyStore == [accessToken |-> None, refreshToken |-> None,
               tokenType |-> None, expiresIn |-> None]

Bearer    == 1     \* tokenType of an AuthenticationResponse
MockEmail == -1    \* 'user@example.com', the e-mail of initializeAuth's mock user
Stale     == -1    \* the Authorization header or body a config still carries from its previous send

\* The backend hands out access and refresh tokens in pairs: pair t is access
\* token t with refresh token t and its own expiresIn.
AuthenticationResponse ==
  { [accessToken |-> t, refreshToken |-> t, tokenType |-> Bearer, expiresIn |-> t] :
      t \in Tokens }

\* A text of the tag-name input: the name it spells (None when it spells
\* nothing) and whether white space surrounds it.
Texts     == [name : 0..NName, pad : BOOLEAN]
EmptyText == [name |-> None, pad |-> FALSE]      \* ''

NoError == [type |-> "none", status |-> 0, body |-> FALSE]

\* An axios error: status 0 stands for "no response received".
\* The answers tried: no response, a 401 and a 500 with an error body, a 404 without one.
ErrorResponses ==
  { e \in [status : {0, 401, 404, 500}, data : BOOLEAN] :
      e.data <=> e.status \in {401, 500} }

\* No error of the request has reached handleError.
NotHandled == [status |-> -1, data |-> FALSE]

NewRequest ==
  [st |-> "new", kind |-> "resource", retry |-> FALSE, sends |-> 0, settles |-> 0,
   err |-> NoError, handled |-> NotHandled, got401 |-> 0, duringRefresh |-> FALSE,
   email |-> None]

Pending(r) == req[r].st \in {"inflight", "refreshing", "queued"}
Settled(r) == req[r].st \in {"resolved", "rejected"}

RefreshCallsInFlight == { r \in Req : req[r].st = "refreshing" }

\* --------------------------------------------------- pure helpers
\* The marker is not set on the config.
markRetry_unset == FALSE

\* originalRequest._retry = true
markRetry == TRUE

\* The flag is left unset when a refresh starts.
markRefreshing_unset == FALSE

\* this.isRefreshing = true, before the refresh call goes out
markRefreshing == TRUE

\* The refreshed tokens are not written to localStorage.
updateTokens_skip(s, resp) == s

\* The token update after the refresh response.
updateTokens(s, resp) ==
  [s EXCEPT !.accessToken = resp.accessToken, !.refreshToken = resp.refreshToken]

\* ApiService.login forgets the expiry.
storeTokens_noExpiry(s, resp) == [resp EXCEPT !.expiresIn = s.expiresIn]

\* ApiService.login: the four setItem calls.
storeTokens(s, resp) ==
  [accessToken |-> resp.accessToken, refreshToken |-> resp.refreshToken,
   tokenType |-> resp.tokenType, expiresIn |-> resp.expiresIn]

\* The entry is put at the head of the queue (unshift for push).
queuePush_front(q, r) == << r >> \o q

\* this.requestQueue.push({ resolve, reject, config })
queuePush(q, r) == Append(q, r)

\* Only the two token keys are removed.
clearTokens_partial(s) == [s EXCEPT !.accessToken = None, !.refreshToken = None]

\* ApiService.clearTokens
clearTokens(s) == EmptyStore

\* handleError drops the response and reports a generic failure.
handleError_generic(e) == [type |-> "api", status |-> 500, body |-> FALSE]

\* ApiService.handleError
handleError(e) ==
  IF e.data
    THEN [type |-> "api", status |-> e.status, body |-> TRUE]
    ELSE [type |-> "api", status |-> (IF e.status = 0 THEN 500 ELSE e.status), body |-> FALSE]

RefreshError   == [type |-> "refresh", status |-> 0, body |-> FALSE]
NoRefreshToken == [type |-> "norefreshtoken", status |-> 0, body |-> FALSE]

\* The request interceptor leaves the header as the config has it.
requestInterceptor_keep(s, h) == h

\* Request interceptor: the Authorization header a config leaves with.
requestInterceptor(s, h) == IF s.accessToken # None THEN s.accessToken ELSE h

\* this.api(config): the request goes out.
apiSend(rq, r) ==
  [rq EXCEPT ![r].st = "inflight", ![r].sends = @ + 1]

\* this.api(config): what goes on the network, after the request interceptor.
apiWire(r, s, h, b) ==
  [req |-> r, auth |-> requestInterceptor(s, h), body |-> b, via |-> "api"]

\* ApiService.refreshToken: the POST through a separate axios instance.
refreshWire(r, s) ==
  [req |-> r, auth |-> None, body |-> s.refreshToken, via |-> "refreshApi"]

\* The caller's promise is settled with a rejection.
rejectCaller(rq, r, e) ==
  [rq EXCEPT ![r].st = "rejected", ![r].settles = @ + 1, ![r].err = e, ![r].kind = "resource",
             ![r].email = None]

\* return Promise.reject(this.handleError(error))
rejectHandled(rq, r, e) ==
  [rejectCaller(rq, r, handleError(e)) EXCEPT ![r].handled = e]

\* The caller's promise is settled with the response.
resolveCaller(rq, r) ==
  [rq EXCEPT ![r].st = "resolved", ![r].settles = @ + 1, ![r].kind = "resource",
             ![r].email = None]

\* The forEach replays the entries and forgets to reject them on a refresh error.
RECURSIVE processQueueEntries_noReject(_, _, _)
processQueueEntries_noReject(rq, q, error) ==
  IF q = << >> THEN rq
  ELSE LET r == Head(q)
           next == IF error # NoError THEN rq ELSE apiSend(rq, r)
       IN processQueueEntries_noReject(next, Tail(q), error)

\* ApiService.processQueue, the forEach over requestQueue.
RECURSIVE processQueueEntries(_, _, _)
processQueueEntries(rq, q, error) ==
  IF q = << >> THEN rq
  ELSE LET r == Head(q)
           next == IF error # NoError THEN rejectCaller(rq, r, error) ELSE apiSend(rq, r)
       IN processQueueEntries(next, Tail(q), error)

\* processQueue forgets to empty the queue.
processQueueRest_keep(q) == q

\* ApiService.processQueue, the queue it leaves behind.
processQueueRest(q) == << >>

\* The queue is replayed from its tail.
processQueueWire_reversed(q, error, token, s) ==
  IF error # NoError THEN << >>
  ELSE [i \in 1..Len(q) |->
          apiWire(q[Len(q) + 1 - i], s, IF token # None THEN token ELSE Stale, Stale)]

\* ApiService.processQueue: what it puts on the network, in order.
processQueueWire(q, error, token, s) ==
  IF error # NoError THEN << >>
  ELSE [i \in 1..Len(q) |-> apiWire(q[i], s, IF token # None THEN token ELSE Stale, Stale)]

\* ApiService.handleAuthenticationFailure: dispatched events and scheduled timers.
handleAuthenticationFailureEvents_none(n) == n
handleAuthenticationFailureEvents(n) == TRUE
handleAuthenticationFailureTimers_none(n) == n
handleAuthenticationFailureTimers(n) == TRUE

\* Every failure is taken for an authentication failure.
otherUnauthorized_any(e) == TRUE

\* No failure is taken for an authentication failure.
otherUnauthorized_never(e) == FALSE

\* "Handle other 401 errors": if (error.response?.status === 401)
otherUnauthorized(e) == e.status = 401

\* The fall-through of the response interceptor: what it does to the token
\* keys, to the authentication-failure signal and to the redirect timer.
fallThroughStore(s, e)  == IF otherUnauthorized(e) THEN clearTokens(s) ELSE s
fallThroughEvents(n, e) == IF otherUnauthorized(e) THEN handleAuthenticationFailureEvents(n) ELSE n
fallThroughTimers(n, e) == IF otherUnauthorized(e) THEN handleAuthenticationFailureTimers(n) ELSE n

\* AuthProvider.login gives every user the mock e-mail.
loginUser_mock(m) == MockEmail

\* AuthProvider.login: setUser({..., email: email})
loginUser(m) == m

\* ApiService.register: the token pair of the registration response is stored.
registerTokens(s, resp) == storeTokens(s, resp)

\* The kinds of the callers in a set of requests.
Kinds(rq, S) == { rq[r].kind : r \in S }

\* AuthProvider: session after the callers of the requests in S were rejected
\* (login's catch, initializeAuth's inner catch and finally, logout's finally).
\* initializeAuth without its finally block: a rejected validation leaves loading set.
sessionAfterReject_noFinally(sess, ks) ==
  [isAuthenticated |-> IF ks \cap {"login", "register", "drafts", "logout"} # {}
                         THEN FALSE ELSE sess.isAuthenticated,
   user            |-> IF ks \cap {"login", "register", "drafts", "logout"} # {}
                         THEN None ELSE sess.user,
   loading         |-> sess.loading]

sessionAfterReject(sess, ks) ==
  [isAuthenticated |-> IF ks \cap {"login", "register", "drafts", "logout"} # {}
                         THEN FALSE ELSE sess.isAuthenticated,
   user            |-> IF ks \cap {"login", "register", "drafts", "logout"} # {}
                         THEN None ELSE sess.user,
   loading         |-> IF "drafts" \in ks THEN FALSE ELSE sess.loading]

\* Every rejected caller removes the keys.
storeAfterReject_any(s, ks) == EmptyStore

\* No rejected caller removes the keys.
storeAfterReject_none(s, ks) == s

\* initializeAuth's inner catch removes the four keys, and ApiService.logout
\* clears the tokens after its POST has failed.
storeAfterReject(s, ks) == IF ks \cap {"drafts", "logout"} # {} THEN EmptyStore ELSE s

\* ApiService.logout lets the failure of its POST through.
logoutSettled_rethrow(ok) == IF ok THEN "resolved" ELSE "rejected"

\* ApiService.logout: the catch around the POST logs the failure and goes on.
logoutSettled(ok) == "resolved"

\* How the calls of ApiService.logout among the callers settled in a turn complete.
logoutOutcomeOf(ks, ok) == IF "logout" \in ks THEN logoutSettled(ok) ELSE "none"

\* The handler returns normally after a failed refresh.
rejectTrigger_swallow(rq, r, e) == resolveCaller(rq, r)

\* return Promise.reject(refreshError)
rejectTrigger(rq, r, e) == rejectCaller(rq, r, e)

Session == [isAuthenticated |-> isAuthenticated, user |-> user, loading |-> loading]

SetSession(sess) ==
  /\ isAuthenticated' = sess.isAuthenticated
  /\ user' = sess.user
  /\ loading' = sess.loading

Range(q) == { q[i] : i \in 1..Len(q) }

\* The refresh call in flight has completed: no request was issued during it any more.
refreshOver(rq) == [r \in Req |-> [rq[r] EXCEPT !.duringRefresh = FALSE]]

\* A turn that sends nothing and receives no refresh response.
Quiet ==
  /\ wire' = << >>
  /\ lastRefreshResponse' = None
  /\ cut' = FALSE

\* A turn in which no logout completes.
Silent ==
  /\ logoutOutcome' = "none"

\* ------------------------------------------------------------ Init
Init ==
  /\ store \in {EmptyStore} \cup { resp \in AuthenticationResponse : resp.accessToken = 1 }
  /\ isRefreshing = FALSE
  /\ refreshTokenPromise = FALSE
  /\ requestQueue = << >>
  /\ req = [r \in Req |-> NewRequest]
  /\ wire = << >>
  /\ lastRefreshResponse = None
  /\ authErrorEvents = FALSE
  /\ redirectTimers = FALSE
  /\ location = "/"
  /\ mounted = FALSE
  /\ isAuthenticated = FALSE
  /\ user = None
  /\ loading = TRUE
  /\ cut = FALSE
  /\ logoutOutcome = "none"
  /\ now = 0
  /\ loginAt = << >>
  /\ authResult = << >>
  /\ newTagNames = << >>
  /\ currentTagInput = EmptyText
  /\ formError = ""
  /\ creating = FALSE
  /\ isOpen = FALSE
  /\ tagsLoading = TRUE
  /\ createTagsCall = << >>

\* --------------------------------------------------------- actions
\* AuthProvider's mount effect: initializeAuth up to its first await.
initializeAuth ==
  /\ UNCHANGED << clockVars, tagVars >>
  /\ ~mounted
  /\ mounted' = TRUE
  /\ IF store.accessToken # None /\ store.refreshToken # None
       THEN /\ req' = apiSend([req EXCEPT ![0].kind = "drafts"], 0)
            /\ wire' = << apiWire(0, store, None, None) >>
            /\ UNCHANGED sessionVars
       ELSE /\ loading' = FALSE
            /\ wire' = << >>
            /\ UNCHANGED << req, isAuthenticated, user >>
  /\ lastRefreshResponse' = None
  /\ cut' = FALSE
  /\ Silent
  /\ UNCHANGED << store, apiVars, signalVars, location >>

\* A page calls a facade method (a resource call, or login through AuthProvider.login).
IssueRequest(r, k) ==
  /\ UNCHANGED << clockVars, tagVars >>
  /\ mounted
  /\ req[r].st = "new"
  /\ \E m \in Emails :
       req' = apiSend([req EXCEPT ![r].kind = k,
                                 ![r].email = (IF k = "resource" THEN None ELSE m),
                                 ![r].duringRefresh = (RefreshCallsInFlight # {})], r)
  /\ wire' = << apiWire(r, store, None, None) >>
  /\ lastRefreshResponse' = None
  /\ cut' = FALSE
  /\ Silent
  /\ UNCHANGED << store, apiVars, signalVars, sessionVars, pageVars >>

\* The POST of logout goes out whatever the store holds.
logoutPosts_always(s) == TRUE

\* ApiService.logout: if (refreshToken)
logoutPosts(s) == s.refreshToken # None

\* AuthProvider.logout calling ApiService.logout, up to its first await.
Logout(r) ==
  /\ UNCHANGED << clockVars, tagVars >>
  /\ mounted
  /\ lastRefreshResponse' = None
  /\ cut' = FALSE
  /\ IF logoutPosts(store)
       THEN /\ req[r].st = "new"
            /\ req' = apiSend([req EXCEPT ![r].kind = "logout",
                                          ![r].duringRefresh = (RefreshCallsInFlight # {})], r)
            /\ wire' = << apiWire(r, store, None, store.refreshToken) >>
            /\ logoutOutcome' = "none"
            /\ UNCHANGED << store, sessionVars >>
       ELSE /\ store' = clearTokens(store)
            /\ SetSession([isAuthenticated |-> FALSE, user |-> None, loading |-> loading])
            /\ logoutOutcome' = logoutSettled(TRUE)
            /\ wire' = << >>
            /\ UNCHANGED req
  /\ UNCHANGED << apiVars, signalVars, pageVars >>

\* A 2xx response: the response interceptor passes it through and the caller continues.
RespondOk(r) ==
  /\ UNCHANGED << clockVars, tagVars >>
  /\ req[r].st = "inflight"
  /\ req' = resolveCaller(req, r)
  /\ CASE req[r].kind = "login" ->
            \E resp \in AuthenticationResponse :
              /\ store' = storeTokens(store, resp)
              /\ SetSession([isAuthenticated |-> TRUE, user |-> loginUser(req[r].email),
                             loading |-> loading])
              /\ location' = "/"
       [] req[r].kind = "register" ->
            \E resp \in AuthenticationResponse :
              /\ store' = registerTokens(store, resp)
              /\ SetSession([isAuthenticated |-> TRUE, user |-> req[r].email,
                             loading |-> loading])
              /\ location' = "/"
       [] req[r].kind = "drafts" ->
            /\ SetSession([isAuthenticated |-> TRUE, user |-> MockEmail, loading |-> FALSE])
            /\ UNCHANGED << store, location >>
       [] req[r].kind = "logout" ->
            /\ store' = clearTokens(store)
            /\ SetSession([isAuthenticated |-> FALSE, user |-> None, loading |-> loading])
            /\ UNCHANGED location
       [] OTHER ->
            UNCHANGED << store, sessionVars, location >>
  /\ logoutOutcome' = logoutOutcomeOf({req[r].kind}, TRUE)
  /\ UNCHANGED << apiVars, signalVars, mounted >>
  /\ Quiet

\* A failure that is not a 401 (or no response at all): response interceptor, fall-through.
RespondError(r, e) ==
  /\ UNCHANGED << clockVars, tagVars >>
  /\ req[r].st = "inflight"
  /\ e.status # 401
  /\ req' = rejectHandled(req, r, e)
  /\ store' = storeAfterReject(fallThroughStore(store, e), {req[r].kind})
  /\ authErrorEvents' = fallThroughEvents(authErrorEvents, e)
  /\ redirectTimers' = fallThroughTimers(redirectTimers, e)
  /\ SetSession(sessionAfterReject(Session, {req[r].kind}))
  /\ logoutOutcome' = logoutOutcomeOf({req[r].kind}, FALSE)
  /\ UNCHANGED << apiVars, pageVars >>
  /\ Quiet

\* A 401 response: response interceptor, all branches up to the first await.
Respond401(r, e) ==
  /\ UNCHANGED << clockVars, tagVars >>
  /\ req[r].st = "inflight"
  /\ e.status = 401
  /\ LET rq0 == [req EXCEPT ![r].got401 = @ + 1] IN
     IF ~req[r].retry
       THEN LET rq1 == [rq0 EXCEPT ![r].retry = markRetry] IN
            IF ~isRefreshing
              THEN IF store.refreshToken = None
                     THEN \* throw, catch, finally
                          LET rq2 == processQueueEntries(rq1, requestQueue, NoRefreshToken)
                              ks  == Kinds(req, Range(requestQueue) \cup {r})
                          IN /\ req' = rejectTrigger(rq2, r, NoRefreshToken)
                             /\ logoutOutcome' = logoutOutcomeOf(ks, FALSE)
                             /\ requestQueue' = processQueueRest(requestQueue)
                             /\ store' = storeAfterReject(clearTokens(store), ks)
                             /\ authErrorEvents' = handleAuthenticationFailureEvents(authErrorEvents)
                             /\ redirectTimers' = handleAuthenticationFailureTimers(redirectTimers)
                             /\ SetSession(sessionAfterReject(Session, ks))
                             /\ isRefreshing' = FALSE
                             /\ refreshTokenPromise' = FALSE
                             /\ Quiet
                             /\ UNCHANGED pageVars
                     ELSE \* the refresh call goes out, the handler awaits it
                          /\ req' = [rq1 EXCEPT ![r].st = "refreshing"]
                          /\ isRefreshing' = markRefreshing
                          /\ refreshTokenPromise' = TRUE
                          /\ wire' = << refreshWire(r, store) >>
                          /\ lastRefreshResponse' = None
                          /\ cut' = FALSE
                          /\ logoutOutcome' = "none"
                          /\ UNCHANGED << store, requestQueue, signalVars, sessionVars, pageVars >>
              ELSE \* a refresh is in progress: queue the request
                   /\ req' = [rq1 EXCEPT ![r].st = "queued"]
                   /\ requestQueue' = queuePush(requestQueue, r)
                   /\ logoutOutcome' = "none"
                   /\ Quiet
                   /\ UNCHANGED << store, isRefreshing, refreshTokenPromise,
                                   signalVars, sessionVars, pageVars >>
       ELSE \* already retried: "other 401 errors"
            /\ req' = rejectHandled(rq0, r, e)
            /\ store' = storeAfterReject(fallThroughStore(store, e), {req[r].kind})
            /\ authErrorEvents' = fallThroughEvents(authErrorEvents, e)
            /\ redirectTimers' = fallThroughTimers(redirectTimers, e)
            /\ SetSession(sessionAfterReject(Session, {req[r].kind}))
            /\ logoutOutcome' = logoutOutcomeOf({req[r].kind}, FALSE)
            /\ Quiet
            /\ UNCHANGED << apiVars, pageVars >>

\* The refresh call of r's handler succeeds: the handler resumes after the await.
RefreshOk(r, resp) ==
  /\ UNCHANGED << clockVars, tagVars >>
  /\ req[r].st = "refreshing"
  /\ LET s1  == updateTokens(store, resp)
         rq1 == processQueueEntries(req, requestQueue, NoError)
     IN /\ store' = s1
        /\ req' = refreshOver(apiSend(rq1, r))
        /\ wire' = processQueueWire(requestQueue, NoError, resp.accessToken, s1)
                      \o << apiWire(r, s1, resp.accessToken, Stale) >>
  /\ requestQueue' = processQueueRest(requestQueue)
  /\ lastRefreshResponse' = resp.accessToken
  /\ cut' = FALSE
  /\ Silent
  /\ isRefreshing' = FALSE
  /\ refreshTokenPromise' = FALSE
  /\ UNCHANGED << signalVars, sessionVars, pageVars >>

\* The refresh call of r's handler fails (any status, or no response): catch and finally.
RefreshFail(r) ==
  /\ UNCHANGED << clockVars, tagVars >>
  /\ req[r].st = "refreshing"
  /\ LET rq1 == processQueueEntries(req, requestQueue, RefreshError)
         ks  == Kinds(req, Range(requestQueue) \cup {r})
     IN /\ req' = refreshOver(rejectTrigger(rq1, r, RefreshError))
        /\ store' = storeAfterReject(clearTokens(store), ks)
        /\ SetSession(sessionAfterReject(Session, ks))
        /\ logoutOutcome' = logoutOutcomeOf(ks, FALSE)
  /\ requestQueue' = processQueueRest(requestQueue)
  /\ authErrorEvents' = handleAuthenticationFailureEvents(authErrorEvents)
  /\ redirectTimers' = handleAuthenticationFailureTimers(redirectTimers)
  /\ isRefreshing' = FALSE
  /\ refreshTokenPromise' = FALSE
  /\ Quiet
  /\ UNCHANGED pageVars

\* A redirect timer fires: window.location.href = '/login' unloads the page and
\* loads the application anew; only localStorage survives.
Redirect ==
  /\ UNCHANGED << clockVars, tagVars >>
  /\ redirectTimers
  /\ location' = "/login"
  /\ cut' = (\E r \in Req : req[r].st \in {"inflight", "refreshing"})
  /\ mounted' = FALSE
  /\ isRefreshing' = FALSE
  /\ refreshTokenPromise' = FALSE
  /\ requestQueue' = << >>
  /\ req' = [r \in Req |-> NewRequest]
  /\ wire' = << >>
  /\ lastRefreshResponse' = None
  /\ authErrorEvents' = FALSE
  /\ redirectTimers' = FALSE
  /\ isAuthenticated' = FALSE
  /\ user' = None
  /\ loading' = TRUE
  /\ Silent
  /\ UNCHANGED store

Respond(r) ==
  \/ RespondOk(r)
  \/ \E e \in ErrorResponses : RespondError(r, e)
  \/ \E e \in ErrorResponses : Respond401(r, e)

RefreshResponse(r) ==
  \/ \E resp \in AuthenticationResponse : RefreshOk(r, resp)
  \/ RefreshFail(r)

Next ==
  \/ initializeAuth
  \/ \E r \in UserReq, k \in {"resource", "login"} : IssueRequest(r, k)
  \/ \E r \in UserReq \cap 1..NOut : Logout(r)
  \/ \E r \in Req : RespondOk(r)
  \/ \E r \in Req, e \in ErrorResponses : RespondError(r, e)
  \/ \E r \in Req, e \in ErrorResponses : Respond401(r, e)
  \/ \E r \in Req, resp \in AuthenticationResponse : RefreshOk(r, resp)
  \/ \E r \in Req : RefreshFail(r)
  \/ Redirect

Spec == Init /\ [][Next]_vars

\* The same operations with fewer request objects per page.
FairNext ==
  \/ initializeAuth
  \/ \E r \in 1..NLive, k \in {"resource", "login"} : IssueRequest(r, k)
  \/ \E r \in 1..NLive : Logout(r)
  \/ \E r \in Req : RespondOk(r)
  \/ \E r \in Req, e \in ErrorResponses : RespondError(r, e)
  \/ \E r \in Req, e \in ErrorResponses : Respond401(r, e)
  \/ \E r \in Req, resp \in AuthenticationResponse : RefreshOk(r, resp)
  \/ \E r \in Req : RefreshFail(r)
  \/ Redirect

\* Every network call in flight gets its response, and a scheduled timer fires.
FairSpec ==
  /\ Init /\ [][FairNext]_vars
  /\ \A r \in Req : WF_vars(Respond(r))
  /\ \A r \in Req : WF_vars(RefreshResponse(r))
  /\ WF_vars(Redirect)

\* The mount effect runs on every page load, every network call in flight gets
\* its response, and a scheduled timer fires.
StartupSpec ==
  /\ Init /\ [][FairNext]_vars
  /\ WF_vars(initializeAuth)
  /\ \A r \in Req : WF_vars(Respond(r))
  /\ \A r \in Req : WF_vars(RefreshResponse(r))
  /\ WF_vars(Redirect)

\* ------------------------------------------------- the expiry check
\* Number.prototype.toString: the decimal digits of a non-negative integer.
RECURSIVE toString(_)
toString(n) == IF n < 10 THEN << n >> ELSE toString(n \div 10) \o << n % 10 >>

\* parseInt on a string of decimal digits.
RECURSIVE parseInt(_)
parseInt(str) ==
  IF Len(str) = 1 THEN str[1]
  ELSE 10 * parseInt(SubSeq(str, 1, Len(str) - 1)) + str[Len(str)]

\* ApiService.isAuthenticated()
isAuthenticatedCall(s, t) ==
  IF s.accessToken = None \/ s.expiresIn = None
    THEN FALSE
    ELSE t < parseInt(toString(s.expiresIn))

\* What the clock specification leaves alone.
clockFrame ==
  UNCHANGED << apiVars, req, wire, lastRefreshResponse, signalVars, pageVars,
               sessionVars, cut, logoutOutcome, tagVars >>

\* Time passes.
Tick ==
  /\ now < MaxNow
  /\ now' = now + 1
  /\ authResult' = << >>
  /\ UNCHANGED << store, loginAt >>
  /\ clockFrame

\* ApiService.login resolves with a response: the four setItem calls.
ClockLogin(resp) ==
  /\ store' = storeTokens(store, resp)
  /\ loginAt' = << now >>
  /\ authResult' = << >>
  /\ UNCHANGED now
  /\ clockFrame

\* A refresh resolves with a response: the token update of the interceptor.
ClockRefresh(resp) ==
  /\ store.refreshToken # None
  /\ store' = updateTokens(store, resp)
  /\ authResult' = << >>
  /\ UNCHANGED << now, loginAt >>
  /\ clockFrame

\* ApiService.logout: clearTokens.
ClockLogout ==
  /\ store' = clearTokens(store)
  /\ loginAt' = << >>
  /\ authResult' = << >>
  /\ UNCHANGED now
  /\ clockFrame

\* A page calls ApiService.isAuthenticated().
CheckAuth ==
  /\ authResult' = << isAuthenticatedCall(store, now) >>
  /\ UNCHANGED << store, now, loginAt >>
  /\ clockFrame

ClockInit == Init /\ store = EmptyStore

ClockNext ==
  \/ Tick
  \/ \E resp \in AuthenticationResponse : ClockLogin(resp)
  \/ \E resp \in AuthenticationResponse : ClockRefresh(resp)
  \/ ClockLogout
  \/ CheckAuth

ClockSpec == ClockInit /\ [][ClockNext]_vars

\* ------------------------------------------------- protected routes
\* ProtectedRoute with its two tests in the other order.
ProtectedRoute_authFirst(ld, auth) ==
  IF ~auth THEN "Navigate" ELSE IF ld THEN "Loading" ELSE "children"

\* ProtectedRoute: what the element of /posts/drafts, /posts/new,
\* /posts/:id/edit and /drafts renders for the loading and isAuthenticated it
\* reads from useAuth().
ProtectedRoute(ld, auth) ==
  IF ld THEN "Loading" ELSE IF ~auth THEN "Navigate" ELSE "children"

\* ------------------------------------------------- registration
\* The operations of Next, with fewer request objects per page, and register.
AuthNext ==
  \/ FairNext
  \/ \E r \in 1..NLive : IssueRequest(r, "register")

AuthSpec == Init /\ [][AuthNext]_vars

\* ------------------------------------------------- the tag creation form
MaxTags == 10      \* newTagNames.length >= 10

\* The input text is taken as typed.
trim_identity(text) == text

\* String.prototype.trim
trim(text) == [text EXCEPT !.pad = FALSE]

\* !tagName: only the empty string is falsy.
isBlank(text) == text = EmptyText

\* newTagNames.includes(tagName)
includes(names, text) == \E i \in 1..Len(names) : names[i] = text

\* newTagNames.length >= 10
listFull(names) == Len(names) >= MaxTags

\* newTagNames.filter(tag => tag !== tagToRemove)
RECURSIVE filterOut(_, _)
filterOut(names, text) ==
  IF names = << >> THEN << >>
  ELSE IF Head(names) = text THEN filterOut(Tail(names), text)
  ELSE << Head(names) >> \o filterOut(Tail(names), text)

\* handleCreateTags: if (!isAuthenticated) { navigate('/login'); return; }
createAllowed(auth) == auth

\* handleModalClose: setNewTagNames([])
closedNames(names) == << >>

\* What a user types next: nothing, white space, or, with white space around
\* it, the next unused name or the first pending name.
TypedTexts ==
  LET fresh == IF newTagNames = << >> THEN 1
               ELSE newTagNames[Len(newTagNames)].name + 1
      again == IF newTagNames = << >> THEN {} ELSE {newTagNames[1].name}
  IN  {EmptyText, [name |-> None, pad |-> TRUE]}
        \cup { [name |-> n, pad |-> TRUE] : n \in ({fresh} \cap 1..NName) \cup again }

\* The chips a user presses to remove: the first and the last pending name.
RemovableNames ==
  IF newTagNames = << >> THEN {}
  ELSE {newTagNames[1], newTagNames[Len(newTagNames)]}

\* The dialog is on screen: the page is past its skeleton and the dialog open.
DialogShown == location = "/tags" /\ ~tagsLoading /\ isOpen

\* What the tag operations leave alone.
tagFrame ==
  UNCHANGED << store, apiVars, req, wire, lastRefreshResponse, signalVars,
               mounted, user, loading, cut, logoutOutcome, clockVars >>

\* A new TagsPage instance: the initial values of its state.
FreshTagsPage ==
  /\ newTagNames' = << >>
  /\ currentTagInput' = EmptyText
  /\ formError' = ""
  /\ creating' = FALSE
  /\ isOpen' = FALSE
  /\ tagsLoading' = TRUE

\* The route /tags is entered: TagsPage mounts and its effect starts fetchTags.
VisitTags ==
  /\ location # "/tags"
  /\ location' = "/tags"
  /\ FreshTagsPage
  /\ createTagsCall' = << >>
  /\ UNCHANGED isAuthenticated
  /\ tagFrame

\* fetchTags settles; after a create, handleCreateTags goes on to its finally block.
fetchTagsDone ==
  /\ location = "/tags"
  /\ tagsLoading
  /\ tagsLoading' = FALSE
  /\ creating' = FALSE
  /\ createTagsCall' = << >>
  /\ UNCHANGED << newTagNames, currentTagInput, formError, isOpen, isAuthenticated, location >>
  /\ tagFrame

\* One of the two buttons that open the dialog, shown to an authenticated session.
onOpen ==
  /\ location = "/tags" /\ ~tagsLoading
  /\ isAuthenticated
  /\ ~isOpen
  /\ isOpen' = TRUE
  /\ createTagsCall' = << >>
  /\ UNCHANGED << newTagNames, currentTagInput, formError, creating, tagsLoading,
                  isAuthenticated, location >>
  /\ tagFrame

\* The user edits the name input.
setCurrentTagInput(text) ==
  /\ DialogShown
  /\ currentTagInput' = text
  /\ createTagsCall' = << >>
  /\ UNCHANGED << newTagNames, formError, creating, isOpen, tagsLoading,
                  isAuthenticated, location >>
  /\ tagFrame

\* The Add button or the Enter key.
handleAddTagName ==
  /\ DialogShown
  /\ LET tagName == trim(currentTagInput) IN
       IF isBlank(tagName)
         THEN formError' = "Tag name cannot be empty"
              /\ UNCHANGED << newTagNames, currentTagInput >>
       ELSE IF includes(newTagNames, tagName)
         THEN formError' = "Tag already added"
              /\ UNCHANGED << newTagNames, currentTagInput >>
       ELSE IF listFull(newTagNames)
         THEN formError' = "Maximum 10 tags allowed"
              /\ UNCHANGED << newTagNames, currentTagInput >>
       ELSE /\ newTagNames' = Append(newTagNames, tagName)
            /\ currentTagInput' = EmptyText
            /\ formError' = ""
  /\ createTagsCall' = << >>
  /\ UNCHANGED << creating, isOpen, tagsLoading, isAuthenticated, location >>
  /\ tagFrame

\* The remove button of a chip.
handleRemoveTagName(tagToRemove) ==
  /\ DialogShown
  /\ newTagNames' = filterOut(newTagNames, tagToRemove)
  /\ createTagsCall' = << >>
  /\ UNCHANGED << currentTagInput, formError, creating, isOpen, tagsLoading,
                  isAuthenticated, location >>
  /\ tagFrame

\* The Create button, which is enabled with a name pending and no create running:
\* handleCreateTags up to its first await.
handleCreateTags ==
  /\ DialogShown
  /\ newTagNames # << >>
  /\ ~creating
  /\ IF Len(newTagNames) = 0
       THEN /\ formError' = "At least one tag is required"
            /\ createTagsCall' = << >>
            /\ UNCHANGED << newTagNames, currentTagInput, creating, isOpen, tagsLoading, location >>
     ELSE IF ~createAllowed(isAuthenticated)
       THEN /\ location' = "/login"
            /\ FreshTagsPage
            /\ createTagsCall' = << >>
     ELSE /\ creating' = TRUE
          /\ formError' = ""
          /\ createTagsCall' = << [names |-> Len(newTagNames), auth |-> isAuthenticated] >>
          /\ UNCHANGED << newTagNames, currentTagInput, isOpen, tagsLoading, location >>
  /\ UNCHANGED isAuthenticated
  /\ tagFrame

\* apiService.createTags resolves: handleCreateTags up to its await of fetchTags.
createTagsOk ==
  /\ location = "/tags"
  /\ creating /\ ~tagsLoading
  /\ newTagNames' = << >>
  /\ currentTagInput' = EmptyText
  /\ isOpen' = FALSE
  /\ tagsLoading' = TRUE
  /\ createTagsCall' = << >>
  /\ UNCHANGED << formError, creating, isAuthenticated, location >>
  /\ tagFrame

\* apiService.createTags is rejected: the catch and finally blocks of handleCreateTags.
createTagsFailed ==
  /\ location = "/tags"
  /\ creating /\ ~tagsLoading
  /\ formError' = "Failed to create tags"
  /\ creating' = FALSE
  /\ createTagsCall' = << >>
  /\ UNCHANGED << newTagNames, currentTagInput, isOpen, tagsLoading, isAuthenticated, location >>
  /\ tagFrame

\* The dialog is dismissed, or Cancel is pressed.
handleModalClose ==
  /\ DialogShown
  /\ newTagNames' = closedNames(newTagNames)
  /\ currentTagInput' = EmptyText
  /\ formError' = ""
  /\ isOpen' = FALSE
  /\ createTagsCall' = << >>
  /\ UNCHANGED << creating, tagsLoading, isAuthenticated, location >>
  /\ tagFrame

\* AuthProvider sets isAuthenticated while TagsPage is on screen.
setIsAuthenticated(b) ==
  /\ isAuthenticated # b
  /\ isAuthenticated' = b
  /\ createTagsCall' = << >>
  /\ UNCHANGED << newTagNames, currentTagInput, formError, creating, isOpen,
                  tagsLoading, location >>
  /\ tagFrame

TagInit == Init /\ store = EmptyStore

TagNext ==
  \/ VisitTags
  \/ fetchTagsDone
  \/ onOpen
  \/ \E text \in TypedTexts : setCurrentTagInput(text)
  \/ handleAddTagName
  \/ \E tagToRemove \in RemovableNames : handleRemoveTagName(tagToRemove)
  \/ handleCreateTags
  \/ createTagsOk
  \/ createTagsFailed
  \/ handleModalClose
  \/ \E b \in BOOLEAN : setIsAuthenticated(b)

TagSpec == TagInit /\ [][TagNext]_vars

TagTypeOK ==
  /\ newTagNames \in Seq(Texts)
  /\ currentTagInput \in Texts
  /\ creating \in BOOLEAN /\ isOpen \in BOOLEAN /\ tagsLoading \in BOOLEAN
  /\ createTagsCall \in {<< >>} \cup { << c >> : c \in [names : 0..NName, auth : BOOLEAN] }

TypeOK ==
  /\ store \in [accessToken : Tokens \cup {None}, refreshToken : Tokens \cup {None},
                tokenType : {None, Bearer}, expiresIn : Tokens \cup {None}]
  /\ isRefreshing \in BOOLEAN
  /\ refreshTokenPromise \in BOOLEAN
  /\ requestQueue \in Seq(Req)
  /\ \A r \in Req : req[r].st \in {"new", "inflight", "refreshing", "queued", "resolved", "rejected"}
  /\ authErrorEvents \in BOOLEAN
  /\ redirectTimers \in BOOLEAN
  /\ location \in {"/", "/login", "/tags"}
  /\ user \in Emails \cup {None, MockEmail}
  /\ \A r \in Req : req[r].email \in Emails \cup {None}
  /\ \A r \in Req : req[r].handled \in ErrorResponses \cup {NotHandled}
  /\ logoutOutcome \in {"none", "resolved", "rejected"}
  /\ now \in 0..MaxNow
  /\ loginAt \in {<< >>} \cup { << t >> : t \in 0..MaxNow }
  /\ authResult \in {<< >>, << TRUE >>, << FALSE >>}
  /\ \A i \in 1..Len(wire) :
       wire[i] \in [req : Req, auth : Tokens \cup {None, Stale},
                    body : Tokens \cup {None, Stale}, via : {"api", "refreshApi"}]

\* ------------------------------------------------------------ properties
\* A step in which the response interceptor receives a 401 for request r.
Got401Step(r) == req'[r].got401 = req[r].got401 + 1

\* C1: at every moment at most one token-refresh network call is in flight,
\* whatever the number of outstanding requests and the order of their 401s.
C1_AtMostOneRefreshInFlight == Cardinality(RefreshCallsInFlight) <= 1

\* A refresh call is in flight while two further requests have had their 401.
C1_Witness ==
  /\ Cardinality(RefreshCallsInFlight) = 1
  /\ Len(requestQueue) >= 2

\* C2 as stated: a request issued while a refresh call is in flight does not
\* complete towards its caller before that refresh call has finished.
C2_Original == \A r \in Req : req[r].duringRefresh => ~Settled(r)

\* C2 as amended: a request whose first 401 arrives while a refresh call is in
\* flight is queued without a further refresh call going out, and a queued
\* request stays uncompleted behind exactly one refresh call in flight.
C2_QueuedBehindOneRefresh ==
  [][ /\ \A r \in Req :
           (RefreshCallsInFlight # {} /\ Got401Step(r) /\ ~req[r].retry)
             => /\ req'[r].st = "queued"
                /\ RefreshCallsInFlight' = RefreshCallsInFlight
      /\ \A r \in Req :
           req'[r].st = "queued"
             => /\ Cardinality(RefreshCallsInFlight') = 1
                /\ req'[r].settles = 0 ]_vars

\* A request issued during the refresh has had its 401 and waits in the queue.
C2_Witness ==
  \E r \in Req : req[r].duringRefresh /\ req[r].st = "queued"

\* C3: when every network call gets its response (none is cut off by the page
\* unload of a redirect), every request that received a 401, be it the one that
\* started the refresh or one queued behind it, is eventually resolved or
\* rejected towards its caller, and no caller is settled twice.
C3_Completes401Once ==
  /\ \A r \in Req : (req[r].got401 > 0) ~> (Settled(r) \/ cut)
  /\ [](\A r \in Req : req[r].settles <= 1)

\* A queued request and the request that started the refresh have both completed.
C3_Witness ==
  \E r1, r2 \in Req :
    /\ r1 # r2
    /\ req[r1].got401 > 0 /\ Settled(r1) /\ req[r1].settles = 1
    /\ req[r2].got401 > 0 /\ Settled(r2) /\ req[r2].settles = 1
    /\ req[r1].err = RefreshError /\ req[r2].err = RefreshError

\* C4: a request whose retry marker is set and that receives a second 401
\* starts no refresh cycle and is not sent again: no request is sent more than
\* twice, only a first 401 leads to a refresh call or to the queue, and the
\* second 401 reaches the caller as the normalized 401 error.
C4_SecondUnauthorizedSurfaces ==
  \A r \in Req :
    /\ req[r].sends <= 2
    /\ req[r].got401 <= 2
    /\ req[r].st \in {"refreshing", "queued"} => (req[r].got401 = 1 /\ req[r].sends = 1)
    /\ req[r].got401 = 2 =>
         /\ req[r].sends = 2
         /\ req[r].st = "rejected"
         /\ req[r].err.type = "api"
         /\ req[r].err.status = 401

\* A retried request has had its second 401.
C4_Witness == \E r \in Req : req[r].got401 = 2 /\ req[r].retry

\* A step in which a refresh call returns successfully.
RefreshOkStep == lastRefreshResponse' # None

\* C5: when the refresh call started by a request's 401 succeeds, that request
\* is sent again once, carrying the access token of the refresh response, and
\* the answer to this second send settles its caller: resolved on success,
\* rejected with the normalized error otherwise, with no further send.
C5_TriggerRetriedWithNewToken ==
  [][ \A r \in Req :
        /\ (req[r].st = "refreshing" /\ RefreshOkStep)
             => /\ req'[r].st = "inflight"
                /\ req'[r].sends = 2
                /\ req'[r].settles = 0
                /\ Cardinality({ i \in 1..Len(wire') : wire'[i].req = r }) = 1
                /\ \A i \in 1..Len(wire') :
                     wire'[i].req = r => wire'[i].auth = lastRefreshResponse'
        /\ (req[r].st = "inflight" /\ req[r].sends = 2 /\ req'[r] # req[r] /\ mounted')
             => /\ req'[r].sends = 2
                /\ req'[r].settles = 1
                /\ \/ req'[r].st = "resolved"
                   \/ req'[r].st = "rejected" /\ req'[r].err.type = "api" ]_vars

\* The retry of the request that started a successful refresh has succeeded.
C5_Witness ==
  \E r \in Req : req[r].sends = 2 /\ req[r].st = "resolved" /\ req[r].got401 = 1

\* C6 as stated: while a refresh call is in flight, every further 401 is put on
\* the queue.
C6_Original ==
  [][ \A r \in Req :
        (RefreshCallsInFlight # {} /\ Got401Step(r)) => req'[r].st = "queued" ]_vars

\* C6 as amended: while a refresh call is in flight, a further 401 of a request
\* not yet marked as retried is put on the queue, a 401 of an already retried
\* request is rejected, and no request that has had a 401 is sent again before
\* the turn in which the refresh call completes.
C6_NoResendDuringRefresh ==
  [][ \A r \in Req :
        /\ (RefreshCallsInFlight # {} /\ Got401Step(r) /\ ~req[r].retry)
             => /\ req'[r].st = "queued"
                /\ req'[r].sends = req[r].sends
                /\ requestQueue' = Append(requestQueue, r)
        /\ (RefreshCallsInFlight # {} /\ Got401Step(r) /\ req[r].retry)
             => /\ req'[r].st = "rejected"
                /\ req'[r].sends = req[r].sends
        /\ (req[r].got401 > 0 /\ req'[r].sends > req[r].sends)
             => (RefreshCallsInFlight # {} /\ RefreshCallsInFlight' = {}) ]_vars

\* A refresh call is in flight with a request queued behind it.
C6_Witness ==
  /\ RefreshCallsInFlight # {}
  /\ requestQueue # << >>
  /\ \A r \in Req : req[r].sends <= 1

\* C7: after a successful refresh the queued requests are sent again in the
\* order in which they were queued, each with the access token of the refresh
\* response, and the answer to a replayed request settles that request alone.
C7_ReplayInOrder ==
  [][ /\ RefreshOkStep =>
           /\ Len(wire') = Len(requestQueue) + 1
           /\ \A i \in 1..Len(requestQueue) :
                /\ wire'[i].req = requestQueue[i]
                /\ wire'[i].auth = lastRefreshResponse'
                /\ req'[requestQueue[i]].st = "inflight"
                /\ req'[requestQueue[i]].sends = 2
      /\ \A r \in Req :
           (req[r].st = "inflight" /\ req[r].sends = 2 /\ Settled(r)' /\ mounted')
             => \A o \in Req \ {r} : req'[o] = req[o] ]_vars

\* Two requests were queued and have just been replayed behind a refresh.
C7_Witness ==
  /\ lastRefreshResponse # None
  /\ Len(wire) = 3
  /\ wire[1].req # wire[2].req

\* C8: when the refresh call fails, the four stored keys are removed, every
\* queued request is rejected with the refresh error without being sent again,
\* and the queue is left empty.
C8_RefreshFailureClears ==
  [][ \A r \in Req :
        (req[r].st = "refreshing" /\ req'[r].st = "rejected")
          => /\ req'[r].err = RefreshError
             /\ store'.accessToken = None
             /\ store'.refreshToken = None
             /\ store'.tokenType = None
             /\ store'.expiresIn = None
             /\ requestQueue' = << >>
             /\ \A i \in 1..Len(requestQueue) :
                  /\ req'[requestQueue[i]].st = "rejected"
                  /\ req'[requestQueue[i]].err = RefreshError
                  /\ req'[requestQueue[i]].settles = 1
                  /\ req'[requestQueue[i]].sends = req[requestQueue[i]].sends ]_vars

\* A refresh has failed with a request queued behind it.
C8_Witness ==
  /\ store = EmptyStore
  /\ requestQueue = << >>
  /\ \E r1, r2 \in Req :
       /\ r1 # r2
       /\ req[r1].err = RefreshError /\ req[r1].sends = 1
       /\ req[r2].err = RefreshError /\ req[r2].sends = 1

\* A refresh cycle has failed on this page (refresh call failed, or no refresh token).
FailedRefresh == \E r \in Req : req[r].err.type \in {"refresh", "norefreshtoken"}

\* C9: every failed refresh cycle has raised the authentication-failure signal,
\* a redirect is pending only once the signal was raised, and the failure is
\* eventually followed by the redirect: the page is loaded anew at /login with
\* the auth session unauthenticated and without a user.
C9_FailureSignalsThenRedirects ==
  /\ [](FailedRefresh => authErrorEvents)
  /\ [](redirectTimers => authErrorEvents)
  /\ FailedRefresh ~> (location = "/login" /\ ~mounted /\ ~isAuthenticated /\ user = None)

\* A refresh has failed under an authenticated session; the redirect is pending.
C9_Witness ==
  /\ FailedRefresh
  /\ isAuthenticated /\ user # None
  /\ authErrorEvents /\ redirectTimers
  /\ location = "/"

\* C10: a 401 that starts a refresh attempt while no refresh token is stored
\* fails at once: no refresh call goes out, the token keys are cleared, the
\* authentication-failure signal is raised, the request is rejected and the
\* coordinator is idle again.
C10_NoRefreshTokenFailsAtOnce ==
  [][ \A r \in Req :
        (Got401Step(r) /\ ~req[r].retry /\ ~isRefreshing /\ store.refreshToken = None)
          => /\ RefreshCallsInFlight' = RefreshCallsInFlight
             /\ req'[r].st = "rejected"
             /\ req'[r].err = NoRefreshToken
             /\ req'[r].sends = req[r].sends
             /\ store' = EmptyStore
             /\ authErrorEvents'
             /\ ~isRefreshing'
             /\ ~refreshTokenPromise'
             /\ requestQueue' = << >> ]_vars

\* A request was rejected for want of a refresh token.
C10_Witness ==
  \E r \in Req :
    /\ req[r].err = NoRefreshToken
    /\ req[r].st = "rejected"
    /\ authErrorEvents
    /\ ~isRefreshing

\* The four localStorage keys of the token store.
TokenKeys == {"accessToken", "refreshToken", "tokenType", "expiresIn"}

\* The keys present in a store.
KeysOf(s) == { k \in TokenKeys : s[k] # None }

\* The store holds exactly the four fields of one response.
HoldsResponse(s, t) ==
  s = [accessToken |-> t, refreshToken |-> t, tokenType |-> Bearer, expiresIn |-> t]

\* C11 as stated: after a successful refresh the stored access token, refresh
\* token, token type and expiry all hold the values of the refresh response.
C11_Original ==
  [][ RefreshOkStep => HoldsResponse(store', lastRefreshResponse') ]_vars

\* A step in which the refresh attempt started by r's 401 fails: the refresh
\* call fails, or there is no refresh token to send.
TriggerFailedStep(r) ==
  \/ /\ req[r].st = "refreshing"
     /\ req'[r].st # "refreshing"
     /\ ~RefreshOkStep
     /\ mounted'
  \/ /\ req[r].st = "inflight"
     /\ Got401Step(r)
     /\ ~req[r].retry
     /\ ~isRefreshing
     /\ store.refreshToken = None

\* C12 as stated: when the refresh attempt fails, the caller whose request
\* started it is not rejected with the refresh error.
C12_Original ==
  [][ \A r \in Req :
        TriggerFailedStep(r) =>
          ~(req'[r].st = "rejected" /\ req'[r].err \in {RefreshError, NoRefreshToken}) ]_vars

\* C12: when the refresh attempt fails, the token keys are cleared, the
\* authentication-failure signal is raised and the redirect scheduled, and the
\* caller whose request started the attempt is rejected with the refresh
\* error itself, which has not gone through the error normalization.
C12_RefreshErrorReachesTrigger ==
  [][ \A r \in Req :
        TriggerFailedStep(r) =>
          /\ req'[r].st = "rejected"
          /\ req'[r].err = (IF req[r].st = "refreshing" THEN RefreshError ELSE NoRefreshToken)
          /\ req'[r].handled = NotHandled
          /\ store' = EmptyStore
          /\ authErrorEvents' /\ redirectTimers' ]_vars

\* The only request that had a 401 was rejected with the error of the refresh call.
C12_Witness ==
  \E r \in Req :
    /\ req[r].st = "rejected" /\ req[r].err = RefreshError
    /\ \A q \in Req \ {r} : req[q].got401 = 0
    /\ redirectTimers

\* C13: every rejection that does not come from a failed refresh attempt holds
\* a normalized error: the backend's error body when the response has one,
\* otherwise the response status (500 when there was no response) without a
\* body; and an error that went through the normalization rejected its caller.
C13_FailuresNormalized ==
  \A r \in Req :
    /\ req[r].st = "rejected" =>
         \/ req[r].err \in {RefreshError, NoRefreshToken} /\ req[r].handled = NotHandled
         \/ /\ req[r].handled \in ErrorResponses
            /\ req[r].err.type = "api"
            /\ req[r].err.body = req[r].handled.data
            /\ req[r].err.status =
                 (IF req[r].handled.data THEN req[r].handled.status
                  ELSE IF req[r].handled.status = 0 THEN 500 ELSE req[r].handled.status)
    /\ req[r].handled # NotHandled => req[r].st = "rejected"

\* A request was answered 404 without a body and its caller rejected.
C13_Witness ==
  \E r \in Req :
    /\ req[r].st = "rejected"
    /\ req[r].handled = [status |-> 404, data |-> FALSE]

\* C14 as stated: a login answered with a 401 and an error body is rejected
\* to its caller with that normalized backend error.
C14_Original ==
  [][ \A r \in Req :
        (req[r].kind = "login" /\ Got401Step(r)) =>
          /\ req'[r].st = "rejected"
          /\ req'[r].err = [type |-> "api", status |-> 401, body |-> TRUE] ]_vars

\* C15: every request the client sends in a turn, be it a first send, a retry
\* or a queued replay, carries the stored access token when one is stored, and
\* the refresh call goes through the separate client without a credential.
C15_BearerIsStoredToken ==
  \A i \in 1..Len(wire) :
    /\ (wire[i].via = "api" /\ store.accessToken # None) => wire[i].auth = store.accessToken
    /\ wire[i].via = "refreshApi" => wire[i].auth = None

\* A refresh call went out while an access token was stored.
C15_Witness ==
  \E i \in 1..Len(wire) :
    /\ wire[i].via = "refreshApi"
    /\ wire[i].auth = None
    /\ store.accessToken # None

\* A step in which logout is called and sends its POST as request r.
LogoutCallStep(r) == req[r].kind # "logout" /\ req'[r].kind = "logout"

\* A step in which a call of logout completes without having sent anything.
LocalLogoutStep ==
  /\ logoutOutcome' # "none"
  /\ \A r \in Req : req[r].kind # "logout"

\* C16: logout called while no refresh token is stored sends nothing, and
\* leaves the four token keys absent.
C16_LogoutWithoutRefreshTokenIsLocal ==
  [][ (store.refreshToken = None /\ ((\E r \in Req : LogoutCallStep(r)) \/ LocalLogoutStep)) =>
        /\ wire' = << >>
        /\ \A r \in Req : req'[r].sends = req[r].sends
        /\ logoutOutcome' = "resolved"
        /\ KeysOf(store') = {} ]_vars

\* Logout has completed on a page that has sent nothing.
C16_Witness ==
  /\ logoutOutcome = "resolved"
  /\ \A r \in Req : req[r].sends = 0

\* Logout runs as request r and nothing else has run beside it on this page.
SoloLogout(r) ==
  /\ req[r].kind = "logout"
  /\ ~req[r].duringRefresh
  /\ \A q \in UserReq \ {r} : req[q].st = "new"
  /\ req[0].st \in {"new", "resolved"}

\* A logout called with a refresh token stored sends one POST with that token.
LogoutSendsToken ==
  \A r \in Req :
    (LogoutCallStep(r) /\ store.refreshToken # None) =>
      wire' = << [req |-> r, auth |-> store.accessToken,
                  body |-> store.refreshToken, via |-> "api"] >>

\* A logout that completes does so without an error and leaves no token key
\* and no session.
LogoutCompletes ==
  logoutOutcome' # "none" =>
    /\ logoutOutcome' = "resolved"
    /\ KeysOf(store') = {}
    /\ ~isAuthenticated' /\ user' = None

\* C17 as stated: a logout called with a refresh token stored and nothing
\* running beside it sends one POST /auth/logout with that token, and whatever
\* the answer it completes without an error, with no token key and no session.
C17_Original ==
  /\ [][LogoutSendsToken /\ LogoutCompletes]_vars
  /\ [](\A r \in UserReq : SoloLogout(r) => req[r].sends <= 1)

\* C17: a logout called with a refresh token stored sends a POST /auth/logout
\* with that token; with nothing running beside it the POST goes out once, and
\* a second time only after a 401 answer has had the tokens refreshed; whatever
\* the answer, logout completes without an error, with no token key and no session.
C17_LogoutAlwaysCompletes ==
  /\ [][LogoutSendsToken /\ LogoutCompletes]_vars
  /\ [](\A r \in UserReq :
          SoloLogout(r) =>
            /\ req[r].sends <= 2
            /\ req[r].sends = 2 => (req[r].got401 >= 1 /\ req[r].retry))

\* The POST of a logout got no usable answer and logout completed all the same.
C17_Witness ==
  /\ logoutOutcome = "resolved"
  /\ store = EmptyStore
  /\ ~isAuthenticated
  /\ \E r \in UserReq : req[r].st = "rejected" /\ req[r].handled \in ErrorResponses

\* A step in which the login sent as request r succeeds.
LoginOkStep(r) == req[r].kind = "login" /\ req'[r].st = "resolved"

\* C18: a successful login writes the four keys, one per field of its
\* response, and these are the keys a completed logout has removed: none is
\* left behind.
C18_LoginKeysAreClearedKeys ==
  [][ /\ \A r \in Req :
           LoginOkStep(r) =>
             /\ KeysOf(store') = TokenKeys
             /\ \E t \in Tokens : HoldsResponse(store', t)
             /\ KeysOf(clearTokens(store')) = {}
      /\ logoutOutcome' # "none" => TokenKeys \ KeysOf(store') = TokenKeys ]_vars

\* A login has filled a store that was empty when the page started.
C18_Witness ==
  /\ mounted
  /\ req[0].sends = 0
  /\ KeysOf(store) = TokenKeys
  /\ \E r \in UserReq : req[r].st = "resolved"

\* A step by which login, logout or startup validation changes the session.
SessionWriterStep ==
  \/ \E r \in Req : req[r].kind \in {"login", "logout", "drafts"} /\ Settled(r)'
  \/ logoutOutcome' # "none"
  \/ mounted' # mounted

\* C19 as stated: once startup validation has finished, isAuthenticated is
\* true exactly when a token pair is stored, and the flag is changed only by
\* login, logout and startup validation.
C19_Original ==
  /\ []((mounted /\ ~loading) =>
          (isAuthenticated <=> (store.accessToken # None /\ store.refreshToken # None)))
  /\ [][isAuthenticated' # isAuthenticated => SessionWriterStep]_vars

\* A step of the 401 handling, or one that completes a login or a logout.
StoreWriterStep ==
  \/ \E r \in Req : Got401Step(r)
  \/ \E r \in Req : req[r].st = "refreshing" /\ req'[r].st # "refreshing" /\ mounted'
  \/ \E r \in Req : LoginOkStep(r)
  \/ logoutOutcome' # "none"

StartupFinishStep == loading /\ ~loading'

\* C21: when startup initialization finishes, the session is authenticated
\* only if the stored token pair was validated by the backend; with the access
\* or the refresh token missing at startup nothing is sent and the session
\* stays unauthenticated; when the validation fails the session is
\* unauthenticated and the four token keys are removed.
C21_StartupValidates ==
  [][ StartupFinishStep =>
        /\ isAuthenticated' => (req'[0].st = "resolved" /\ req'[0].sends >= 1)
        /\ req'[0].st = "resolved" => isAuthenticated'
        /\ (~mounted /\ (store.accessToken = None \/ store.refreshToken = None)) =>
             /\ wire' = << >>
             /\ \A r \in Req : req'[r].sends = 0
             /\ ~isAuthenticated'
        /\ req'[0].st = "rejected" =>
             /\ ~isAuthenticated'
             /\ KeysOf(store') = {} ]_vars

\* Startup validation succeeded on its second send, after a refresh.
C21_Witness ==
  /\ mounted /\ ~loading
  /\ isAuthenticated
  /\ req[0].st = "resolved"
  /\ req[0].sends = 2

\* C22 as stated: isAuthenticated() returns true exactly when an access token
\* is stored and the clock is before the login time plus the expiresIn of the
\* login response, and false when the access token or the expiry is missing.
C22_Original ==
  authResult # << >> =>
    (authResult[1] <=>
       /\ store.accessToken # None
       /\ store.expiresIn # None
       /\ loginAt # << >>
       /\ now < loginAt[1] + store.expiresIn)

\* C23 as stated, for the turn that follows the completion of a logout: the
\* token keys, absent once logout has completed, are written again only by a
\* login; a refresh that completes after the logout writes no token back.
C23_Original ==
  [][ (logoutOutcome # "none" /\ store' # store) => \E r \in Req : LoginOkStep(r) ]_vars

\* A step in which a refresh cycle ends, by success or by failure.
CycleEndStep == RefreshOkStep \/ \E r \in Req : TriggerFailedStep(r)

\* C24: whenever the request queue is not empty a refresh is in progress, and
\* every refresh cycle, successful or failed, ends with the queue empty,
\* isRefreshing false and no refresh promise kept.
C24_QueueOnlyWhileRefreshing ==
  /\ [](requestQueue # << >> => isRefreshing)
  /\ [][ CycleEndStep =>
           /\ requestQueue' = << >>
           /\ ~isRefreshing'
           /\ ~refreshTokenPromise' ]_vars

\* A second refresh cycle runs after a first one has ended with a replay.
C24_Witness ==
  /\ isRefreshing /\ refreshTokenPromise
  /\ \E r1, r2 \in Req :
       /\ req[r1].st = "refreshing"
       /\ req[r2].st = "resolved" /\ req[r2].sends = 2

\* A step in which request r fails with a status other than 401, or with no
\* response at all.
NonAuthFailureStep(r) ==
  /\ req[r].st = "inflight"
  /\ req'[r].handled # NotHandled
  /\ req'[r].handled.status # 401

\* What such a failure leaves alone, the token keys apart.
NonAuthFailureFrame(r) ==
  /\ isRefreshing' = isRefreshing
  /\ refreshTokenPromise' = refreshTokenPromise
  /\ requestQueue' = requestQueue
  /\ authErrorEvents' = authErrorEvents
  /\ redirectTimers' = redirectTimers
  /\ wire' = << >>
  /\ req'[r].sends = req[r].sends
  /\ req'[r].st = "rejected"

\* C25 as stated: a failure that is not a 401 leaves the stored tokens, the
\* isRefreshing flag and the queue unchanged, raises no authentication-failure
\* signal, schedules no redirect and is not retried.
C25_Original ==
  [][ \A r \in Req :
        NonAuthFailureStep(r) => (NonAuthFailureFrame(r) /\ store' = store) ]_vars

\* C25: a failure that is not a 401 leaves the isRefreshing flag and the queue
\* unchanged, raises no authentication-failure signal, schedules no redirect
\* and is not retried; it leaves the stored tokens unchanged when the caller is
\* a resource call or a login, while the startup validation and logout remove
\* the four keys when their call fails.
C25_NonAuthFailureFrame ==
  [][ \A r \in Req :
        NonAuthFailureStep(r) =>
          /\ NonAuthFailureFrame(r)
          /\ req[r].kind \in {"resource", "login"} => store' = store
          /\ req[r].kind \in {"drafts", "logout"} => KeysOf(store') = {} ]_vars

\* A call failed with a 500 during a refresh cycle and the tokens are still stored.
C25_Witness ==
  /\ isRefreshing
  /\ KeysOf(store) = TokenKeys
  /\ \E r \in UserReq : req[r].st = "rejected" /\ req[r].handled.status = 500

\* C26: a 401 received by a request that was already retried, or replayed from
\* the queue, removes the four token keys, raises the authentication-failure
\* signal, schedules the redirect and rejects the caller with the normalized
\* 401 error, without a further send.
C26_RetriedUnauthorizedTearsDown ==
  [][ \A r \in Req :
        (Got401Step(r) /\ req[r].retry) =>
          /\ KeysOf(store') = {}
          /\ authErrorEvents' /\ redirectTimers'
          /\ req'[r].st = "rejected"
          /\ req'[r].err = [type |-> "api", status |-> 401, body |-> TRUE]
          /\ req'[r].sends = req[r].sends
          /\ wire' = << >> ]_vars

\* A request replayed after a successful refresh had a second 401: the tokens
\* of that refresh are gone and the redirect is pending.
C26_Witness ==
  /\ store = EmptyStore
  /\ redirectTimers
  /\ \E r \in Req :
       /\ req[r].sends = 2
       /\ req[r].handled = [status |-> 401, data |-> TRUE]

\* A step in which the login or register sent as request r resolves.
AuthCallOkStep(r) == req[r].kind \in {"login", "register"} /\ req'[r].st = "resolved"

\* A step in which the login or register sent as request r is rejected.
AuthCallFailedStep(r) == req[r].kind \in {"login", "register"} /\ req'[r].st = "rejected"

\* C27: when login or register resolves, the session is authenticated, the
\* user record carries the submitted e-mail and the four token keys hold the
\* fields of one server response; when login or register fails, the session is
\* unauthenticated, the user is null and the caller is rejected with the error.
C27_AuthCallOutcome ==
  [][ \A r \in Req :
        /\ AuthCallOkStep(r) =>
             /\ isAuthenticated'
             /\ user' = req[r].email /\ user' \in Emails
             /\ \E t \in Tokens : HoldsResponse(store', t)
        /\ AuthCallFailedStep(r) =>
             /\ ~isAuthenticated'
             /\ user' = None
             /\ req'[r].err # NoError ]_vars

\* A login or register has signed the user in with the submitted e-mail on a page
\* whose startup validation had been rejected.
C27_Witness ==
  /\ isAuthenticated /\ user \in Emails
  /\ KeysOf(store) = TokenKeys
  /\ req[0].st = "rejected"
  /\ \E r \in UserReq : req[r].st = "resolved" /\ req[r].sends = 1

\* A page load: the document is replaced and a new AuthProvider is built.
PageLoadStep == mounted /\ ~mounted'

\* C28: the loading flag starts true; on every page load the mount effect
\* runs, and provided the page lives until the requests startup makes are
\* answered, the flag becomes false whether there were no tokens, the
\* validation succeeded or it failed; once false it stays false for as long as
\* the page lives.
C28_LoadingEnds ==
  /\ loading = TRUE
  /\ (loading /\ ~mounted) ~> mounted
  /\ (loading /\ mounted) ~> (~loading \/ ~mounted)
  /\ [][ (~loading /\ loading') => PageLoadStep ]_vars

\* Startup has finished with a rejected validation, and loading is off.
C28_Witness ==
  /\ mounted /\ ~loading
  /\ req[0].st = "rejected" /\ req[0].sends >= 1
  /\ ~isAuthenticated

\* C29: a protected route renders its page exactly when loading is false and
\* the session is authenticated; while loading is true it renders the
\* placeholder, neither the page nor the redirect; and with loading false and
\* the session unauthenticated it renders the redirect to /login.
C29_ProtectedRouteGate ==
  /\ ProtectedRoute(loading, isAuthenticated) = "children" <=> (~loading /\ isAuthenticated)
  /\ loading => ProtectedRoute(loading, isAuthenticated) = "Loading"
  /\ (~loading /\ ~isAuthenticated) => ProtectedRoute(loading, isAuthenticated) = "Navigate"

\* A login has resolved while the startup validation is still unanswered: the
\* session is authenticated and the route still shows the placeholder.
C29_Witness ==
  /\ mounted /\ loading /\ isAuthenticated
  /\ ProtectedRoute(loading, isAuthenticated) = "Loading"

\* C30: whatever is typed, added, removed, closed and created in the tag
\* creation form, the pending names hold no name twice, no empty or
\* white-space-only name and at most 10 names; apiService.createTags is called
\* only with at least one name and an authenticated session; and the list is
\* empty when a create has succeeded and whenever the dialog is closed.
C30_TagFormKeepsItsList ==
  /\ [](/\ \A i, j \in 1..Len(newTagNames) : newTagNames[i] = newTagNames[j] => i = j
        /\ \A i \in 1..Len(newTagNames) :
             newTagNames[i].name # None /\ ~newTagNames[i].pad
        /\ Len(newTagNames) <= MaxTags
        /\ \A i \in 1..Len(createTagsCall) :
             createTagsCall[i].names >= 1 /\ createTagsCall[i].auth
        /\ ~isOpen => newTagNames = << >>)
  /\ [][ (creating /\ ~tagsLoading /\ tagsLoading') => newTagNames' = << >> ]_vars

\* Ten names are pending and an eleventh was refused.
C30_Witness ==
  /\ Len(newTagNames) = MaxTags
  /\ formError = "Maximum 10 tags allowed"
  /\ isOpen

====
